---- MODULE Spec2Model ----
(***************************************************************************)
(* The console feature's log-line formatter (src/features/console.rs):     *)
(* parse_line drives a directive scanner over argument 0 and substitutes   *)
(* the following arguments through parse_field_value.                      *)
(*                                                                         *)
(* A Rust String is a sequence of characters, each a TLA+ string naming    *)
(* one character; a character's UTF-8 width is kept, because the code      *)
(* indexes strings by byte offset (find, len, split_off).  The output is a *)
(* sequence of text pieces: characters and a few fixed multi-character     *)
(* pieces ("JS_REALM:[", "]: ", "Error: ").                                *)
(***************************************************************************)
EXTENDS Integers, Sequences, FiniteSets, TLC

VARIABLES args, pc, message, pos, output, field_code, in_field, x, filled,
          tail_idx, consumed

vars == <<args, pc, message, pos, output, field_code, in_field, x, filled,
          tail_idx, consumed>>

(***************************************************************************)
(* Bounds of the model.                                                    *)
(***************************************************************************)
\* template pieces concatenated into one template of the line family
MaxPieces == 2
\* arguments after argument 0 in the line family
MaxArgs == 2
\* characters of a display string in the directive family
MaxDispLen == 4
\* largest one-digit precision of a directive in the directive family
MaxPrec == 3

(***************************************************************************)
(* Characters and Rust's byte-indexed string primitives.                   *)
(***************************************************************************)
\* U+00E9 (e with acute accent), a character whose UTF-8 encoding takes two
\* bytes
EAcute == "U+00E9"

Digits == <<"0", "1", "2", "3", "4", "5", "6", "7", "8", "9">>

\* UTF-8 width of a character (char::len_utf8)
Width(c) == IF c = EAcute THEN 2 ELSE 1

\* String::len: the length in bytes
RECURSIVE ByteLen(_)
ByteLen(s) == IF s = <<>> THEN 0 ELSE Width(Head(s)) + ByteLen(Tail(s))

\* index (1-based, in characters) of the first c in s, 0 when there is none
RECURSIVE FirstIdx(_, _)
FirstIdx(s, c) ==
    IF s = <<>> THEN 0
    ELSE IF Head(s) = c THEN 1
    ELSE LET r == FirstIdx(Tail(s), c) IN IF r = 0 THEN 0 ELSE r + 1

\* str::contains(char)
Contains(s, c) == FirstIdx(s, c) # 0

\* str::find(char): the byte offset of the first c; only used when Contains
FindByte(s, c) == ByteLen(SubSeq(s, 1, FirstIdx(s, c) - 1))

\* str::ends_with(char)
EndsWith(s, c) == Len(s) > 0 /\ s[Len(s)] = c

\* number of leading characters of s that make up exactly `at` bytes,
\* -1 when `at` is past the end or inside a character (str::is_char_boundary)
CharsAt(s, at) ==
    IF \E k \in 0..Len(s) : ByteLen(SubSeq(s, 1, k)) = at
    THEN CHOOSE k \in 0..Len(s) : ByteLen(SubSeq(s, 1, k)) = at
    ELSE -1

\* String::split_off(at): keeps [0, at) in place and returns [at, len);
\* panics when `at` is not on a character boundary or past the end
split_off(s, at) ==
    LET k == CharsAt(s, at) IN
    IF k = -1 THEN [panic |-> TRUE, keep |-> <<>>, off |-> <<>>]
    ELSE [panic |-> FALSE, keep |-> SubSeq(s, 1, k),
          off |-> SubSeq(s, k + 1, Len(s))]

\* value of a digit character, -1 for any other character
DigitVal(c) ==
    IF \E d \in 1..10 : Digits[d] = c
    THEN (CHOOSE d \in 1..10 : Digits[d] = c) - 1
    ELSE -1

RECURSIVE DigitsVal(_, _)
DigitsVal(s, acc) ==
    IF s = <<>> THEN acc
    ELSE IF DigitVal(Head(s)) = -1 THEN -1
    ELSE DigitsVal(Tail(s), acc * 10 + DigitVal(Head(s)))

\* usize::from_str: Ok(n) as n, Err as -1; an optional leading '+' and then
\* one or more decimal digits
usize_from_str(s) ==
    LET body == IF s # <<>> /\ Head(s) = "+" THEN Tail(s) ELSE s IN
    IF body = <<>> THEN -1 ELSE DigitsVal(body, 0)

(***************************************************************************)
(* Values: a category and the outcome of the two string views.  A view is  *)
(* [ok, s]: the string when ok, the error's display text otherwise.        *)
(***************************************************************************)
Ok(s) == [ok |-> TRUE, s |-> s]
Err(e) == [ok |-> FALSE, s |-> e]
Value(cat, disp, json) == [cat |-> cat, disp |-> disp, json |-> json]

\* functions::call_to_string
call_to_string(value) == value.disp

\* json::stringify followed by primitives::to_string
stringify(value) == value.json

\* Result::unwrap_or(String::new())
unwrap_or_empty(r) == IF r.ok THEN r.s ELSE <<>>

\* a returned String, or a panic
Ret(s) == [panic |-> FALSE, s |-> s]
Panicked == [panic |-> TRUE, s |-> <<>>]

\* mutant of PadLeftZero: `while i_val.len() <= ct`
RECURSIVE PadLeftZero_OneMore(_, _)
PadLeftZero_OneMore(i_val, ct) ==
    IF ByteLen(i_val) <= ct THEN PadLeftZero_OneMore(<<"0">> \o i_val, ct)
    ELSE i_val

\* the loop `while i_val.len() < ct { i_val = format!("0{i_val}") }`
RECURSIVE PadLeftZero(_, _)
PadLeftZero(i_val, ct) ==
    IF ByteLen(i_val) < ct THEN PadLeftZero(<<"0">> \o i_val, ct) ELSE i_val

\* the loop `while f_val.len() - dot_idx <= ct { f_val.push('0') }`
RECURSIVE PadRightZero(_, _, _)
PadRightZero(f_val, dot_idx, ct) ==
    IF ByteLen(f_val) - dot_idx <= ct
    THEN PadRightZero(f_val \o <<"0">>, dot_idx, ct)
    ELSE f_val

\* `m_field.split_off(dot + 1)` then `num_decimals_str.split_off(len - 1)`:
\* the characters between the first '.' of the field and its last character;
\* a panic of either split_off is kept
NumDecimalsStr(field) ==
    LET first == split_off(field, FindByte(field, ".") + 1) IN
    IF first.panic THEN first
    ELSE split_off(first.off, ByteLen(first.off) - 1)

\* `if let Some(i) = i_val.find('.') { let _ = i_val.split_off(i); }`
TruncateAtDot(i_val) ==
    IF Contains(i_val, ".") THEN split_off(i_val, FindByte(i_val, "."))
    ELSE [panic |-> FALSE, keep |-> i_val, off |-> <<>>]

\* the branch `field.ends_with('d') || field.ends_with('i')`
FormatInt(field, value) ==
    LET cut == TruncateAtDot(unwrap_or_empty(call_to_string(value))) IN
    IF cut.panic THEN Panicked
    ELSE IF ~Contains(field, ".") THEN Ret(cut.keep)
    ELSE LET nd == NumDecimalsStr(field) IN
         IF nd.panic THEN Panicked
         ELSE IF nd.keep = <<>> THEN Ret(cut.keep)
         ELSE LET ct == usize_from_str(nd.keep) IN
              IF ct = -1 THEN Ret(cut.keep)
              ELSE Ret(PadLeftZero(cut.keep, ct))

\* the body of `if ct > 0 { ... }` in the 'f' branch
FloatDigits(f_val0, ct) ==
    LET f_val1 == IF Contains(f_val0, ".") THEN f_val0 ELSE f_val0 \o <<".">>
        dot_idx == FindByte(f_val1, ".")
        f_val2 == PadRightZero(f_val1, dot_idx, ct)
    IN  IF ByteLen(f_val2) - dot_idx > ct
        THEN LET cut == split_off(f_val2, dot_idx + ct + 1) IN
             IF cut.panic THEN Panicked ELSE Ret(cut.keep)
        ELSE Ret(f_val2)

\* the trailing `call_to_string(ctx, value).unwrap_or(String::new())`
FormatDisplay(value) == Ret(unwrap_or_empty(call_to_string(value)))

\* the structured rendering of the 'o' / 'O' branch
FormatJson(value) == Ret(unwrap_or_empty(stringify(value)))

\* the branch `field.ends_with('f')`; the test for 'o' / 'O' is nested in
\* the else of its `if let Some(dot_in_field_idx) = field.find('.')`
FormatFloat(field, value) ==
    LET f_val == unwrap_or_empty(call_to_string(value)) IN
    IF Contains(field, ".")
    THEN LET nd == NumDecimalsStr(field) IN
         IF nd.panic THEN Panicked
         ELSE IF nd.keep = <<>> THEN Ret(f_val)
         ELSE LET ct == usize_from_str(nd.keep) IN
              IF ct > 0 THEN FloatDigits(f_val, ct) ELSE Ret(f_val)
    ELSE IF EndsWith(field, "o") \/ EndsWith(field, "O")
         THEN FormatJson(value)
         ELSE FormatDisplay(value)

\* the field code that is redirected to "%i"
ZeroFloatField == <<"%", ".", "0", "f">>

\* parse_field_value(ctx, field, value)
parse_field_value(field, value) ==
    IF field = ZeroFloatField THEN FormatInt(<<"%", "i">>, value)
    ELSE IF EndsWith(field, "d") \/ EndsWith(field, "i")
         THEN FormatInt(field, value)
    ELSE IF EndsWith(field, "f") THEN FormatFloat(field, value)
    ELSE FormatDisplay(value)

\* mutant of stringify_log_obj: `Err(_) => String::new()`
stringify_log_obj_Empty(arg) == unwrap_or_empty(stringify(arg))

\* stringify_log_obj(ctx, arg)
stringify_log_obj(arg) ==
    IF stringify(arg).ok THEN stringify(arg).s
    ELSE <<"Error: ">> \o stringify(arg).s

\* the `match arg.get_js_type()` of parse_line, used for argument 0 and for
\* every leftover argument
Aggregates == {"Object", "Function", "Array"}

render_default(arg) ==
    IF arg.cat \in Aggregates THEN stringify_log_obj(arg)
    ELSE unwrap_or_empty(call_to_string(arg))

\* mutant of is_string: everything rendered by plain display is scanned
is_string_NotAggregate(arg) == arg.cat \notin Aggregates

\* QuickJsValueAdapter::is_string
is_string(arg) == arg.cat = "String"

\* the realm id pushed between "JS_REALM:[" and "]: "
RealmId == "main"

Prefix == <<"JS_REALM:[", RealmId, "]: ">>

\* the characters that end a field in the scanner of parse_line
IsFieldEnd(chr) == chr \in {"s", "d", "f", "o", "i"}

(***************************************************************************)
(* Inputs.  The line family: argument 0 is a template made of at most      *)
(* MaxPieces pieces, or a value of another category, followed by at most   *)
(* MaxArgs values.  The directive family: one directive "%<prec><kind>"    *)
(* and one argument whose display string ranges over every string of at    *)
(* most MaxDispLen characters.                                             *)
(***************************************************************************)
Categories == {"String", "Number", "Boolean", "Object", "Array", "Function",
               "Other"}

Quoted(s) == <<"\"">> \o s \o <<"\"">>

StrValue(s) == Value("String", Ok(s), Ok(Quoted(s)))
NumValue(s) == Value("Number", Ok(s), Ok(s))

\* the error text of a failing view
ErrText == <<"TypeError">>

LinePieces ==
    { <<"a">>, <<"%">>, <<"%", "s">>, <<"%", "d">>, <<"%", "o">>,
      <<"%", "O">>, <<"%", ".", "0", "f">>, <<"%", ".", "2", "f">> }

RECURSIVE Templates(_)
Templates(n) ==
    IF n = 0 THEN {<<>>}
    ELSE LET shorter == Templates(n - 1) IN
         shorter \cup {t \o p : t \in shorter, p \in LinePieces}

LineValues ==
    { NumValue(<<"1", ".", "9">>),
      Value("Object", Ok(<<"[", "o", "]">>), Ok(<<"{", "}">>)),
      Value("Function", Ok(<<"f", "(", ")">>), Err(ErrText)),
      Value("Other", Err(ErrText), Err(ErrText)) }

FirstValues ==
    LineValues \cup
    { Value("Array", Ok(<<"1", ",", "2">>), Ok(<<"[", "1", ",", "2", "]">>)),
      Value("Boolean", Ok(<<"t", "r", "u", "e">>), Ok(<<"t", "r", "u", "e">>)),
      Value("Object", Ok(<<"[", "o", "]">>), Ok(<<"{", "%", "s", "}">>)),
      Value("Number", Ok(<<"%", "s">>), Ok(<<"%", "s">>)),
      Value("Array", Err(ErrText), Err(ErrText)) }

ArgLists(values, n) == UNION {[1..k -> values] : k \in 0..n}

LineInputs ==
    {<<>>} \cup
    { <<StrValue(t)>> \o rest :
        t \in Templates(MaxPieces), rest \in ArgLists(LineValues, MaxArgs) }
    \cup
    { <<v>> \o rest :
        v \in {w \in FirstValues : w.cat # "String"},
        rest \in ArgLists(LineValues, MaxArgs) }

KindLetters == {"s", "d", "i", "f", "o", "O"}

Precisions ==
    {<<>>, <<".">>, <<".", "x">>, <<".", "1", "0">>}
    \cup {<<".", Digits[p + 1]>> : p \in 0..MaxPrec}

DispAlphabet == {"1", "5", ".", EAcute}

ExampleDisplays ==
    { <<"3", ".", "7">>, <<"3">>, <<"1", ".", "1">>,
      <<"1", ".", "5", "6", "7">>, <<"1", ".", "9">> }

Displays ==
    UNION {[1..k -> DispAlphabet] : k \in 0..MaxDispLen} \cup ExampleDisplays

DirectiveInputs ==
    { <<StrValue(<<"%">> \o p \o <<k>>), StrValue(d)>> :
        p \in Precisions, k \in KindLetters, d \in Displays }

(***************************************************************************)
(* parse_line as a process: pc is its position.                            *)
(*   "start"  before the first statement                                   *)
(*   "scan"   in `for chr in message.chars()`, pos the next character      *)
(*   "tail"   in `for arg in args.iter().skip(filled)`, tail_idx the next  *)
(*            argument (0-based)                                           *)
(*   "done"   returned output                                              *)
(*   "panic"  unwound out of parse_field_value                             *)
(* x and filled hold the code's 0-based values.  consumed is a history     *)
(* variable: the 0-based indices of the arguments handed to                *)
(* parse_field_value, in order.                                            *)
(***************************************************************************)
Init ==
    /\ args \in LineInputs \cup DirectiveInputs
    /\ pc = "start"
    /\ message = <<>>
    /\ pos = 1
    /\ output = <<>>
    /\ field_code = <<>>
    /\ in_field = FALSE
    /\ x = 1
    /\ filled = 1
    /\ tail_idx = 0
    /\ consumed = <<>>

\* `if args.is_empty() { return output; }`
ReturnEmpty ==
    /\ pc = "start"
    /\ args = <<>>
    /\ output' = Prefix
    /\ pc' = "done"
    /\ UNCHANGED <<args, message, pos, field_code, in_field, x, filled,
                   tail_idx, consumed>>

\* argument 0 is a string: its display string is the template to scan
BeginTemplate ==
    /\ pc = "start"
    /\ args # <<>>
    /\ is_string(args[1])
    /\ output' = Prefix
    /\ message' = render_default(args[1])
    /\ pos' = 1
    /\ pc' = "scan"
    /\ UNCHANGED <<args, field_code, in_field, x, filled, tail_idx, consumed>>

\* argument 0 is not a string: `output.push_str(message.as_str())`
BeginPlain ==
    /\ pc = "start"
    /\ args # <<>>
    /\ ~is_string(args[1])
    /\ message' = render_default(args[1])
    /\ output' = Prefix \o message'
    /\ tail_idx' = filled
    /\ pc' = "tail"
    /\ UNCHANGED <<args, pos, field_code, in_field, x, filled, consumed>>

Scanning == pc = "scan" /\ pos <= Len(message)

\* a field ends while an argument is left: it is formatted and appended
FieldFill ==
    /\ Scanning /\ in_field /\ IsFieldEnd(message[pos])
    /\ x < Len(args)
    /\ LET r == parse_field_value(field_code \o <<message[pos]>>, args[x + 1])
       IN  /\ ~r.panic
           /\ output' = output \o r.s
    /\ consumed' = Append(consumed, x)
    /\ x' = x + 1
    /\ filled' = filled + 1
    /\ in_field' = FALSE
    /\ field_code' = <<>>
    /\ pos' = pos + 1
    /\ UNCHANGED <<args, pc, message, tail_idx>>

\* the same step when a split_off inside parse_field_value panics
FieldPanic ==
    /\ Scanning /\ in_field /\ IsFieldEnd(message[pos])
    /\ x < Len(args)
    /\ parse_field_value(field_code \o <<message[pos]>>, args[x + 1]).panic
    /\ consumed' = Append(consumed, x)
    /\ field_code' = field_code \o <<message[pos]>>
    /\ pc' = "panic"
    /\ UNCHANGED <<args, message, pos, output, in_field, x, filled, tail_idx>>

\* a field ends after the last argument was used
FieldSkip ==
    /\ Scanning /\ in_field /\ IsFieldEnd(message[pos])
    /\ ~(x < Len(args))
    /\ in_field' = FALSE
    /\ field_code' = <<>>
    /\ pos' = pos + 1
    /\ UNCHANGED <<args, pc, message, output, x, filled, tail_idx, consumed>>

\* any other character inside a field
FieldPush ==
    /\ Scanning /\ in_field /\ ~IsFieldEnd(message[pos])
    /\ field_code' = field_code \o <<message[pos]>>
    /\ pos' = pos + 1
    /\ UNCHANGED <<args, pc, message, output, in_field, x, filled, tail_idx,
                   consumed>>

\* `else if chr.eq(&'%') { in_field = true; }`
FieldOpen ==
    /\ Scanning /\ ~in_field /\ message[pos] = "%"
    /\ in_field' = TRUE
    /\ pos' = pos + 1
    /\ UNCHANGED <<args, pc, message, output, field_code, x, filled, tail_idx,
                   consumed>>

\* `else { output.push(chr); }`
Literal ==
    /\ Scanning /\ ~in_field /\ message[pos] # "%"
    /\ output' = output \o <<message[pos]>>
    /\ pos' = pos + 1
    /\ UNCHANGED <<args, pc, message, field_code, in_field, x, filled,
                   tail_idx, consumed>>

\* mutant of ScanEnd: `args.iter().skip(1)`, the substituted arguments are
\* appended again
ScanEnd_SkipOne ==
    /\ pc = "scan" /\ pos > Len(message)
    /\ tail_idx' = 1
    /\ pc' = "tail"
    /\ UNCHANGED <<args, message, pos, output, field_code, in_field, x, filled,
                   consumed>>

\* the template is exhausted: on to `args.iter().skip(filled)`
ScanEnd ==
    /\ pc = "scan" /\ pos > Len(message)
    /\ tail_idx' = filled
    /\ pc' = "tail"
    /\ UNCHANGED <<args, message, pos, output, field_code, in_field, x, filled,
                   consumed>>

\* one leftover argument: a space and its default rendering
TailArg ==
    /\ pc = "tail" /\ tail_idx < Len(args)
    /\ output' = output \o <<" ">> \o render_default(args[tail_idx + 1])
    /\ tail_idx' = tail_idx + 1
    /\ UNCHANGED <<args, pc, message, pos, field_code, in_field, x, filled,
                   consumed>>

\* the final `output`
Return ==
    /\ pc = "tail" /\ tail_idx >= Len(args)
    /\ pc' = "done"
    /\ UNCHANGED <<args, message, pos, output, field_code, in_field, x, filled,
                   tail_idx, consumed>>

Next ==
    \/ ReturnEmpty
    \/ BeginTemplate
    \/ BeginPlain
    \/ FieldFill
    \/ FieldPanic
    \/ FieldSkip
    \/ FieldPush
    \/ FieldOpen
    \/ Literal
    \/ ScanEnd
    \/ TailArg
    \/ Return

Spec == Init /\ [][Next]_vars

(***************************************************************************)
(* Claims.                                                                 *)
(***************************************************************************)
IsSuffix(suffix, s) ==
    /\ Len(suffix) <= Len(s)
    /\ SubSeq(s, Len(s) - Len(suffix) + 1, Len(s)) = suffix

\* the leftover arguments with 0-based indices from..to-1, each as one space
\* and its default rendering
RECURSIVE C1_Leftovers(_, _)
C1_Leftovers(from, to) ==
    IF from >= to THEN <<>>
    ELSE <<" ">> \o render_default(args[from + 1]) \o C1_Leftovers(from + 1, to)

C1_State ==
    (args # <<>> /\ pc # "panic") =>
        /\ 1 <= filled /\ filled <= Len(args)
        /\ x = filled
        /\ consumed = [i \in 1..(filled - 1) |-> i]
        /\ pc \in {"tail", "done"} =>
              /\ filled <= tail_idx /\ tail_idx <= Len(args)
              /\ IsSuffix(C1_Leftovers(filled, tail_idx), output)
        /\ pc = "done" => tail_idx = Len(args)

C1_Step ==
    pc = "tail" =>
        /\ filled' = filled /\ consumed' = consumed
        /\ pc' = "tail" =>
              /\ tail_idx' = tail_idx + 1
              /\ output' = output \o <<" ">> \o render_default(args[tail_idx + 1])
        /\ pc' = "done" => output' = output /\ tail_idx' = tail_idx

\* C1: for a non-empty argument list, 1 <= filled <= args.len() throughout
\* the call; the arguments handed to directives are exactly those at indices
\* 1..filled-1, taken left to right; and the tail loop appends exactly the
\* arguments at indices filled..len-1, in order, each as one space followed
\* by its default rendering, so that the returned output ends with them.
C1_LeftoversAppended == [](C1_State) /\ [][C1_Step]_vars

\* one argument was substituted and another appended as a leftover
C1_Witness ==
    /\ pc = "done" /\ Len(args) = 3 /\ filled = 2 /\ consumed = <<1>>
    /\ IsSuffix(<<" ">> \o render_default(args[3]), output)

\* the scanner is in directive mode and reads character c
InDirectiveAt(c) == Scanning /\ in_field /\ message[pos] = c

C2_Step ==
    \A c \in KindLetters :
        (InDirectiveAt(c) /\ pc' # "panic") =>
            /\ in_field' = FALSE
            /\ field_code' = <<>>
            /\ x < Len(args) =>
                  /\ x' = x + 1
                  /\ output' = output \o
                        parse_field_value(field_code \o <<c>>, args[x + 1]).s
            /\ x >= Len(args) => x' = x

\* C2: in directive mode each of the kind letters s, d, i, f, o and O ends
\* the directive at that character: with an argument left it is rendered,
\* appended and the cursor advances by one, and in every case the scanner
\* leaves directive mode with an empty field code.  (A step that panics in
\* parse_field_value is left to C10.)
C2_KindLetterEndsDirective == [][C2_Step]_vars

C3_Step ==
    \A c \in {"o", "O"} :
        (InDirectiveAt(c) /\ x' = x + 1) =>
            output' = output \o unwrap_or_empty(stringify(args[x + 1]))

\* C3: a directive with kind letter o or O that consumes an argument
\* substitutes its structured string, the empty string when serialization
\* fails, and never its plain display string.
C3_ObjectDirectiveSerializes == [][C3_Step]_vars

C4_Step ==
    (Scanning /\ in_field /\ ~in_field' /\ x = Len(args)) =>
        output' = output \o <<"%">> \o field_code \o <<message[pos]>>

\* C4: a directive that completes when every argument has been consumed is
\* put into the output verbatim: '%', the field code and the kind letter.
C4_ExhaustedDirectiveVerbatim == [][C4_Step]_vars

IsDigits(s) == s # <<>> /\ \A i \in 1..Len(s) : DigitVal(s[i]) # -1

\* the decimal number a digit string writes
RECURSIVE DecimalOf(_)
DecimalOf(s) ==
    IF s = <<>> THEN 0
    ELSE 10 * DecimalOf(SubSeq(s, 1, Len(s) - 1)) + DigitVal(s[Len(s)])

\* the field code between '%' and the kind letter is empty or ".<p>"
IsPrecision(fc) == fc = <<>> \/ (Head(fc) = "." /\ IsDigits(Tail(fc)))
PrecisionOf(fc) == IF fc = <<>> THEN 0 ELSE DecimalOf(Tail(fc))

Zeros(n) == [i \in 1..n |-> "0"]

\* s up to, and without, its first '.'
BeforeDot(s) ==
    IF \E i \in 1..Len(s) : s[i] = "."
    THEN SubSeq(s, 1, (CHOOSE i \in 1..Len(s) :
                          s[i] = "." /\ \A j \in 1..(i - 1) : s[j] # ".") - 1)
    ELSE s

\* the display string cut at its first '.', then left-padded with '0' while
\* its length (String::len, in bytes) is below p
C5_Text(display, p) ==
    LET cut == BeforeDot(display)
        missing == IF ByteLen(cut) < p THEN p - ByteLen(cut) ELSE 0
    IN  Zeros(missing) \o cut

C5_Case(c) ==
    /\ InDirectiveAt(c) /\ x < Len(args)
    /\ IsPrecision(field_code)
    /\ call_to_string(args[x + 1]).ok

C5_Step ==
    \A c \in {"d", "i"} :
        C5_Case(c) =>
            /\ pc' = "scan"
            /\ output' = output \o
                  C5_Text(call_to_string(args[x + 1]).s, PrecisionOf(field_code))

FracOf(display) == SubSeq(display, Len(BeforeDot(display)) + 2, Len(display))

\* the prefixes of s that are n units long, a character counting for its
\* String length (one per character of an ASCII string)
PrefixesOfLen(s, n) ==
    {SubSeq(s, 1, k) : k \in {j \in 0..Len(s) : ByteLen(SubSeq(s, 1, j)) = n}}

\* the texts that are the display string with a '.' appended if it has none
\* and exactly p after its first '.': the fractional part padded with '0',
\* or cut to its first p.  There is none when the cut would split a
\* character.
C6_Texts(display, p) ==
    LET frac == FracOf(display) IN
    {BeforeDot(display) \o <<".">> \o f :
        f \in IF ByteLen(frac) < p THEN {frac \o Zeros(p - ByteLen(frac))}
              ELSE PrefixesOfLen(frac, p)}

C6_Case ==
    /\ InDirectiveAt("f") /\ x < Len(args)
    /\ IsPrecision(field_code)
    /\ call_to_string(args[x + 1]).ok

C6_Step ==
    /\ (C6_Case /\ PrecisionOf(field_code) >= 1) =>
          /\ pc' = "scan"
          /\ \E text \in C6_Texts(call_to_string(args[x + 1]).s,
                                  PrecisionOf(field_code)) :
                output' = output \o text
    /\ (C6_Case /\ field_code = <<>>) =>
          /\ pc' = "scan"
          /\ output' = output \o call_to_string(args[x + 1]).s

\* C6: a directive %.<p>f with p >= 1 substitutes the argument's display
\* string with a '.' appended if it has none and exactly p characters after
\* its first '.' (padded with '0', or cut without rounding); a %f without
\* precision substitutes the display string unmodified.  The characters
\* after the '.' are counted as the String counts them (len), which is the
\* character count of an ASCII display string.
C6_FloatDirective == [][C6_Step]_vars

\* The same statement for the calls that do not panic: it holds, so every
\* run that violates C6_FloatDirective ends in the panic of C10.
C6_UnlessPanicStep == pc' # "panic" => C6_Step

C6_FloatDirectiveUnlessPanic == [][C6_UnlessPanicStep]_vars

C7_Step ==
    (InDirectiveAt("f") /\ field_code = <<".", "0">> /\ x < Len(args)) =>
        /\ pc' = "scan"
        /\ output' = output \o parse_field_value(<<"i">>, args[x + 1]).s

\* C7: the directive %.0f substitutes what the directive %i substitutes for
\* the same argument (the scanner hands <<"i">> to parse_field_value for %i).
C7_ZeroFloatIsInt == [][C7_Step]_vars

\* argument 0 is rendered: the step out of "start" of a non-empty call
C8_First == pc = "start" /\ args # <<>>
\* a leftover argument is appended
C8_Leftover == pc = "tail" /\ tail_idx < Len(args)
\* a directive substitutes the argument at the cursor
C8_Substitution == Scanning /\ in_field /\ x' = x + 1
\* the view of a value that its default rendering takes
C8_DefaultView(v) == IF v.cat \in Aggregates THEN stringify(v) ELSE call_to_string(v)
\* what a directive substitutes for a value whose display string is empty
C8_AsEmpty(field, v) == parse_field_value(field, [v EXCEPT !.disp = Ok(<<>>)]).s
\* what the step out of "start" contributes for argument 0
C8_FirstIsEmpty == IF is_string(args[1]) THEN message' = <<>> ELSE output' = Prefix

C8_OriginalStep ==
    /\ (C8_First /\ ~C8_DefaultView(args[1]).ok) => C8_FirstIsEmpty
    /\ (C8_Leftover /\ ~C8_DefaultView(args[tail_idx + 1]).ok) =>
          output' = output \o <<" ">>
    /\ (C8_Substitution /\ message[pos] = "o" /\ ~stringify(args[x + 1]).ok) =>
          output' = output
    /\ (C8_Substitution /\ message[pos] # "o"
            /\ ~call_to_string(args[x + 1]).ok) =>
          output' = output \o C8_AsEmpty(field_code \o <<message[pos]>>,
                                         args[x + 1])

C8_AmendedStep ==
    /\ (C8_First /\ ~C8_DefaultView(args[1]).ok) =>
          IF args[1].cat \in Aggregates
          THEN output' = Prefix \o <<"Error: ">> \o stringify(args[1]).s
          ELSE C8_FirstIsEmpty
    /\ (C8_Leftover /\ ~C8_DefaultView(args[tail_idx + 1]).ok) =>
          IF args[tail_idx + 1].cat \in Aggregates
          THEN output' = output \o <<" ", "Error: ">>
                                \o stringify(args[tail_idx + 1]).s
          ELSE output' = output \o <<" ">>
    /\ (C8_Substitution /\ ~call_to_string(args[x + 1]).ok) =>
          output' = output \o C8_AsEmpty(field_code \o <<message[pos]>>,
                                         args[x + 1])

C9_Rendering(v) ==
    IF v.cat \in {"Object", "Array", "Function"}
    THEN IF v.json.ok THEN v.json.s ELSE <<"Error: ">> \o v.json.s
    ELSE IF v.disp.ok THEN v.disp.s ELSE <<>>

\* C9: when argument 0 is not of category String no directive is scanned
\* and filled stays 1: the output is the prefix, argument 0 rendered whole
\* with every '%' kept, then every argument from index 1 on as a leftover;
\* no argument is substituted.
C9_NonStringNotScanned ==
    (args # <<>> /\ args[1].cat # "String") =>
        /\ filled = 1 /\ x = 1 /\ consumed = <<>>
        /\ ~in_field /\ field_code = <<>>
        /\ pc \in {"start", "tail", "done"}
        /\ pc \in {"tail", "done"} =>
              output = Prefix \o C9_Rendering(args[1])
                              \o C1_Leftovers(1, tail_idx)
        /\ pc = "done" => tail_idx = Len(args)

\* an Object whose structured string holds "%s" was logged with one more
\* argument, which followed as a leftover
C9_Witness ==
    /\ pc = "done" /\ Len(args) = 2
    /\ args[1].cat = "Object" /\ Contains(stringify(args[1]).s, "%")
    /\ output = Prefix \o stringify(args[1]).s \o <<" ">>
                       \o render_default(args[2])

\* C10: a format call never aborts: no split_off of parse_field_value is
\* handed an offset that is out of range or inside a character.
C10_NeverPanics == pc # "panic"

====
